---- MODULE Spec2Model ----
(***************************************************************************)
(* A model of the bidirectional text cursor of src/src/lib.rs.            *)
(*                                                                         *)
(* The buffer is a sequence of UTF-8 bytes.  The cursor is the triple      *)
(* (offset, line, forward) of the struct Cursor, where forward is the      *)
(* CharIndices iterator: its front_offset and the bytes it has not yet     *)
(* produced.  Every method of Cursor is an operator from a cursor record   *)
(* to an outcome record [self, ret, panic]; the actions apply them.        *)
(***************************************************************************)
EXTENDS Integers, Sequences, FiniteSets, TLC

VARIABLES data, offset, line, forward, view, op, ret, panicked, ended, advanced,
          retreated, yielded

vars == <<data, offset, line, forward, view, op, ret, panicked, ended, advanced,
          retreated, yielded>>

\* The logs kept by the round-trip and enumeration runs.
logs == <<advanced, retreated, yielded>>

\* Longest buffer, in characters.
MaxLen == 3

\* The count of a view's steps that returned None stops here.
MaxEnded == 2

\* Option<T>: None is the empty tuple, Some(x) the one-element tuple.
None == <<>>

Some(x) == <<x>>

----------------------------------------------------------------------------
(* Characters and their UTF-8 encoding (what a Rust &str holds).           *)

\* 'a', ' ', '\n', U+00A0 NO-BREAK SPACE, U+2003 EM SPACE, U+1F44B WAVING HAND:
\* byte widths 1, 1, 1, 2, 3, 4; the second to fifth are whitespace.
Alphabet == {97, 32, 10, 160, 8195, 128075}

is_newline(c) == c = 10

\* char::is_whitespace: the Unicode White_Space property.
is_whitespace(c) ==
    \/ c \in 9..13
    \/ c \in {32, 133, 160, 5760, 8232, 8233, 8239, 8287, 12288}
    \/ c \in 8192..8202

Encode(c) ==
    IF c < 128 THEN <<c>>
    ELSE IF c < 2048 THEN <<192 + (c \div 64), 128 + (c % 64)>>
    ELSE IF c < 65536 THEN
        <<224 + (c \div 4096), 128 + ((c \div 64) % 64), 128 + (c % 64)>>
    ELSE <<240 + (c \div 262144), 128 + ((c \div 4096) % 64),
           128 + ((c \div 64) % 64), 128 + (c % 64)>>

RECURSIVE EncodeAll(_)
EncodeAll(cs) ==
    IF cs = <<>> THEN <<>> ELSE Encode(Head(cs)) \o EncodeAll(Tail(cs))

\* The well-formed buffers of at most MaxLen characters.
Buffers == {EncodeAll(cs) : cs \in UNION {[1..n -> Alphabet] : n \in 0..MaxLen}}

IsContinuation(b) == b >= 128 /\ b < 192

\* Width of the character whose first byte is b.
Width(b) == IF b < 128 THEN 1 ELSE IF b < 224 THEN 2 ELSE IF b < 240 THEN 3 ELSE 4

\* The code point encoded by the bytes s of one character.
Decode(s) ==
    IF Len(s) = 1 THEN s[1]
    ELSE IF Len(s) = 2 THEN (s[1] - 192) * 64 + (s[2] - 128)
    ELSE IF Len(s) = 3 THEN (s[1] - 224) * 4096 + (s[2] - 128) * 64 + (s[3] - 128)
    ELSE (s[1] - 240) * 262144 + (s[2] - 128) * 4096 + (s[3] - 128) * 64 + (s[4] - 128)

\* str::is_char_boundary(i), i a 0-based byte index.
IsCharBoundary(s, i) ==
    \/ i = 0
    \/ i = Len(s)
    \/ i < Len(s) /\ ~IsContinuation(s[i + 1])

\* &s[lo..hi]: None stands for the panic of an index that is out of bounds
\* or not on a character boundary.
StrSlice(s, lo, hi) ==
    IF lo <= hi /\ hi <= Len(s) /\ IsCharBoundary(s, lo) /\ IsCharBoundary(s, hi)
    THEN Some(SubSeq(s, lo + 1, hi))
    ELSE None

\* &s[lo..=hi] is &s[lo..hi + 1].
StrSliceInclusive(s, lo, hi) == StrSlice(s, lo, hi + 1)

----------------------------------------------------------------------------
(* std::str::CharIndices: [front_offset, iter], iter the bytes left.       *)

char_indices(s) == [front_offset |-> 0, iter |-> s]

as_str(ci) == ci.iter

\* CharIndices::next with the bug of counting characters, not bytes.
CharIndicesNext_CharCount(ci) ==
    IF ci.iter = <<>> THEN [item |-> None, ci |-> ci]
    ELSE LET w == Width(ci.iter[1])
             rest == SubSeq(ci.iter, w + 1, Len(ci.iter))
         IN [item |-> Some(<<ci.front_offset, Decode(SubSeq(ci.iter, 1, w))>>),
             ci |-> [front_offset |-> ci.front_offset + 1, iter |-> rest]]

\* CharIndices::next: the item and the iterator afterwards.
CharIndicesNext(ci) ==
    IF ci.iter = <<>> THEN [item |-> None, ci |-> ci]
    ELSE LET w == Width(ci.iter[1])
             rest == SubSeq(ci.iter, w + 1, Len(ci.iter))
         IN [item |-> Some(<<ci.front_offset, Decode(SubSeq(ci.iter, 1, w))>>),
             ci |-> [front_offset |-> ci.front_offset + w, iter |-> rest]]

\* LastStart with the bug of stepping back one byte whatever the character.
LastStart_OneByte(s, i) == i

\* Index (1-based) of the first byte of the last character of s.
RECURSIVE LastStart(_, _)
LastStart(s, i) == IF i > 1 /\ IsContinuation(s[i]) THEN LastStart(s, i - 1) ELSE i

\* next_back with the bug of giving the index at which the character ends.
CharIndicesNextBack_EndIndex(ci) ==
    IF ci.iter = <<>> THEN [item |-> None, ci |-> ci]
    ELSE LET k == LastStart(ci.iter, Len(ci.iter))
             rest == SubSeq(ci.iter, 1, k - 1)
         IN [item |-> Some(<<ci.front_offset + Len(ci.iter),
                             Decode(SubSeq(ci.iter, k, Len(ci.iter)))>>),
             ci |-> [front_offset |-> ci.front_offset, iter |-> rest]]

\* CharIndices::next_back: the index is front_offset plus the bytes left.
CharIndicesNextBack(ci) ==
    IF ci.iter = <<>> THEN [item |-> None, ci |-> ci]
    ELSE LET k == LastStart(ci.iter, Len(ci.iter))
             rest == SubSeq(ci.iter, 1, k - 1)
         IN [item |-> Some(<<ci.front_offset + Len(rest),
                             Decode(SubSeq(ci.iter, k, Len(ci.iter)))>>),
             ci |-> [front_offset |-> ci.front_offset, iter |-> rest]]

----------------------------------------------------------------------------
(* struct Cursor and its methods.  A method's outcome is                   *)
(* [self |-> the cursor afterwards, ret |-> its value, panic |-> BOOLEAN]. *)

Self == [offset |-> offset, line |-> line, forward |-> forward]

Outcome(self, r) == [self |-> self, ret |-> r, panic |-> FALSE]

Panic(self) == [self |-> self, ret |-> None, panic |-> TRUE]

\* Cursor::new
new(d) == [offset |-> 0, line |-> 0, forward |-> char_indices(d)]

\* Cursor::backward: None when the slice data[..offset] panics.
backward(self) ==
    LET s == StrSlice(data, 0, self.offset)
    IN IF s = None THEN None ELSE Some(char_indices(s[1]))

\* next with the bug of leaving line alone when it steps over a newline.
next_LineKept(self) ==
    LET last_byte_len == Len(as_str(self.forward))
        r == CharIndicesNext(self.forward)
        cur_byte_len == Len(as_str(r.ci))
    IN IF r.item = None THEN Outcome(self, None)
       ELSE Outcome([offset |-> self.offset + (last_byte_len - cur_byte_len),
                     line |-> self.line,
                     forward |-> r.ci],
                    r.item)

\* Iterator for Cursor: next
next(self) ==
    LET last_byte_len == Len(as_str(self.forward))
        r == CharIndicesNext(self.forward)
        cur_byte_len == Len(as_str(r.ci))
    IN IF r.item = None THEN Outcome(self, None)
       ELSE Outcome([offset |-> self.offset + (last_byte_len - cur_byte_len),
                     line |-> IF is_newline(r.item[1][2]) THEN self.line + 1
                              ELSE self.line,
                     forward |-> r.ci],
                    r.item)

\* prev with the bug of leaving forward as it was (line 83 left out).
prev_NoResync(self, overflow_checks) ==
    LET b == backward(self)
    IN IF b = None THEN Panic(self)
       ELSE LET last_byte_len == Len(as_str(b[1]))
                r == CharIndicesNextBack(b[1])
                cur_byte_len == Len(as_str(r.ci))
                off == self.offset - (last_byte_len - cur_byte_len)
            IN IF r.item = None THEN Outcome(self, None)
               ELSE LET moved == [offset |-> off, line |-> self.line,
                                  forward |-> self.forward]
                    IN IF ~is_newline(r.item[1][2]) THEN Outcome(moved, r.item)
                       ELSE IF self.line = 0 /\ overflow_checks THEN Panic(moved)
                       ELSE Outcome([moved EXCEPT !.line = self.line - 1], r.item)

\* "self.line -= 1" on a usize: with overflow checks (a debug build) an
\* underflow panics; without them (a release build) it wraps to usize::MAX,
\* which is written here as -1, its value modulo the width of usize.
\* Cursor::prev
prev(self, overflow_checks) ==
    LET b == backward(self)
    IN IF b = None THEN Panic(self)
       ELSE LET last_byte_len == Len(as_str(b[1]))
                r == CharIndicesNextBack(b[1])
                cur_byte_len == Len(as_str(r.ci))
                off == self.offset - (last_byte_len - cur_byte_len)
                s == StrSlice(data, off, Len(data))
            IN IF r.item = None THEN Outcome(self, None)
               ELSE IF s = None THEN Panic([self EXCEPT !.offset = off])
               ELSE LET moved == [offset |-> off, line |-> self.line,
                                  forward |-> char_indices(s[1])]
                    IN IF ~is_newline(r.item[1][2]) THEN Outcome(moved, r.item)
                       ELSE IF self.line = 0 /\ overflow_checks THEN Panic(moved)
                       ELSE Outcome([moved EXCEPT !.line = self.line - 1], r.item)

\* peek pairing the character with self.offset instead of the index that
\* forward gives.
peek_OwnOffset(self) ==
    LET item == CharIndicesNext(self.forward).item
    IN Outcome(self, IF item = None THEN None ELSE Some(<<self.offset, item[1][2]>>))

\* peek with the bug of calling next() on forward itself, not on a clone.
peek_NoClone(self) ==
    LET r == CharIndicesNext(self.forward)
    IN Outcome([self EXCEPT !.forward = r.ci], r.item)

\* Cursor::peek: next() on a clone of forward, so self stays as it is.
peek(self) == Outcome(self, CharIndicesNext(self.forward).item)

\* Cursor::lookback
lookback(self) ==
    LET b == backward(self)
    IN IF b = None THEN Panic(self) ELSE Outcome(self, CharIndicesNextBack(b[1]).item)

\* The while loop of next_word: advance until whitespace is peeked.
RECURSIVE word_loop(_)
word_loop(self) ==
    LET p == peek(self).ret
    IN IF p = None THEN self
       ELSE IF is_whitespace(p[1][2]) THEN self
       ELSE word_loop(next(self).self)

\* The while loop of next_line: advance until a newline is peeked.
RECURSIVE line_loop(_)
line_loop(self) ==
    LET p == peek(self).ret
    IN IF p = None THEN self
       ELSE IF is_newline(p[1][2]) THEN self
       ELSE line_loop(next(self).self)

\* next_word with the bug of testing start <= end, so that a scan that
\* consumed nothing returns a slice too.
next_word_EmptyIsSome(self) ==
    LET start == self.offset
        after == word_loop(self)
        end == after.offset
        s == StrSliceInclusive(data, start, end)
    IN IF start <= end
       THEN IF s = None THEN Panic(after) ELSE Outcome(after, Some(<<start, s[1]>>))
       ELSE Outcome(after, None)

\* Cursor::next_word
next_word(self) ==
    LET start == self.offset
        after == word_loop(self)
        end == after.offset
        s == StrSliceInclusive(data, start, end)
    IN IF start < end
       THEN IF s = None THEN Panic(after) ELSE Outcome(after, Some(<<start, s[1]>>))
       ELSE Outcome(after, None)

\* Cursor::next_line
next_line(self) ==
    LET start == self.offset
        after == line_loop(self)
        end == after.offset
        s == StrSliceInclusive(data, start, end)
    IN IF start < end
       THEN IF s = None THEN Panic(after) ELSE Outcome(after, Some(s[1]))
       ELSE Outcome(after, None)

\* Cursor::skip_whitespace
RECURSIVE skip_whitespace(_)
skip_whitespace(self) ==
    LET p == peek(self).ret
    IN IF p = None THEN self
       ELSE IF ~is_whitespace(p[1][2]) THEN self
       ELSE skip_whitespace(next(self).self)

\* words_next with the bug of skipping whitespace before the scan's value is
\* looked at, so also when the scan returned None.
words_next_SkipAlways(self) ==
    LET r == next_word(self)
    IN IF r.panic THEN r
       ELSE Outcome(skip_whitespace(r.self), r.ret)

\* Iterator for CursorWords<false>: next
words_next(self) ==
    LET r == next_word(self)
    IN IF r.panic \/ r.ret = None THEN r
       ELSE Outcome(skip_whitespace(r.self), r.ret)

\* words_with_lines_next with the bug of reading line after the scan and the
\* skip, not before.
words_with_lines_next_LineAfter(self) ==
    LET r == next_word(self)
        skipped == skip_whitespace(r.self)
    IN IF r.panic \/ r.ret = None THEN r
       ELSE Outcome(skipped, Some(<<r.ret[1][1], skipped.line, r.ret[1][2]>>))

\* Iterator for CursorWords<true>: next
words_with_lines_next(self) ==
    LET l == self.line
        r == next_word(self)
    IN IF r.panic \/ r.ret = None THEN r
       ELSE Outcome(skip_whitespace(r.self), Some(<<r.ret[1][1], l, r.ret[1][2]>>))

\* Iterator for CursorLines: next
lines_next(self) ==
    LET l == self.line
        r == next_line(self)
    IN IF r.panic \/ r.ret = None THEN r
       ELSE Outcome(r.self, Some(<<l, r.ret[1]>>))

----------------------------------------------------------------------------
(* The state machine.  view is the live borrow of the cursor: "none", or   *)
(* the view that holds &mut Cursor; op and ret are the last call and its   *)
(* value; panicked is set by a call that panicked, after which nothing     *)
(* runs.  ended counts the steps of the live view that returned None, up   *)
(* to MaxEnded.  advanced and retreated log the items of a round-trip run and     *)
(* yielded the items of a view enumerated from a fresh cursor; the calls   *)
(* of Next leave the three empty.                                          *)

Init ==
    /\ data \in Buffers
    /\ offset = new(data).offset
    /\ line = new(data).line
    /\ forward = new(data).forward
    /\ view = "none"
    /\ op = "new"
    /\ ret = None
    /\ panicked = FALSE
    /\ ended = 0
    /\ advanced = <<>>
    /\ retreated = <<>>
    /\ yielded = <<>>

\* The call named o ended with outcome r.
Apply(o, r) ==
    /\ offset' = r.self.offset
    /\ line' = r.self.line
    /\ forward' = r.self.forward
    /\ op' = o
    /\ ret' = r.ret
    /\ panicked' = r.panic
    /\ UNCHANGED data

Direct == ~panicked /\ view = "none"

\* A step of a view that returns None is counted.
CountEnded ==
    ended' = IF ~panicked' /\ ret' = None /\ ended < MaxEnded THEN ended + 1 ELSE ended

Advance ==
    /\ Direct
    /\ Apply("next", next(Self))
    /\ UNCHANGED <<view, ended, logs>>

Retreat ==
    /\ Direct
    /\ \E overflow_checks \in BOOLEAN : Apply("prev", prev(Self, overflow_checks))
    /\ UNCHANGED <<view, ended, logs>>

Peek ==
    /\ Direct
    /\ Apply("peek", peek(Self))
    /\ UNCHANGED <<view, ended, logs>>

Lookback ==
    /\ Direct
    /\ Apply("lookback", lookback(Self))
    /\ UNCHANGED <<view, ended, logs>>

NextWord ==
    /\ Direct
    /\ Apply("next_word", next_word(Self))
    /\ UNCHANGED <<view, ended, logs>>

NextLine ==
    /\ Direct
    /\ Apply("next_line", next_line(Self))
    /\ UNCHANGED <<view, ended, logs>>

\* Cursor::words, Cursor::words_with_lines, Cursor::lines: borrow the cursor.
OpenView ==
    /\ Direct
    /\ \E v \in {"words", "words_with_lines", "lines"} :
          /\ view' = v
          /\ op' = v
    /\ ret' = None
    /\ ended' = 0
    /\ UNCHANGED <<data, offset, line, forward, panicked, logs>>

\* The view goes out of scope and the borrow ends.
DropView ==
    /\ ~panicked
    /\ view # "none"
    /\ view' = "none"
    /\ op' = "drop"
    /\ ret' = None
    /\ ended' = 0
    /\ UNCHANGED <<data, offset, line, forward, panicked, logs>>

WordsNext ==
    /\ ~panicked
    /\ view = "words"
    /\ Apply("words_next", words_next(Self))
    /\ CountEnded
    /\ UNCHANGED <<view, logs>>

WordsWithLinesNext ==
    /\ ~panicked
    /\ view = "words_with_lines"
    /\ Apply("words_with_lines_next", words_with_lines_next(Self))
    /\ CountEnded
    /\ UNCHANGED <<view, logs>>

LinesNext ==
    /\ ~panicked
    /\ view = "lines"
    /\ Apply("lines_next", lines_next(Self))
    /\ CountEnded
    /\ UNCHANGED <<view, logs>>

Next ==
    \/ Advance
    \/ Retreat
    \/ Peek
    \/ Lookback
    \/ NextWord
    \/ NextLine
    \/ OpenView
    \/ DropView
    \/ WordsNext
    \/ WordsWithLinesNext
    \/ LinesNext

Spec == Init /\ [][Next]_vars

----------------------------------------------------------------------------
(* The round trip: successful advances on a fresh cursor, then retreats,   *)
(* one more than the advances.                                             *)

RTAdvance ==
    /\ Direct
    /\ retreated = <<>>
    /\ Apply("next", next(Self))
    /\ ret' # None
    /\ advanced' = Append(advanced, ret'[1])
    /\ UNCHANGED <<view, ended, retreated, yielded>>

RTRetreat ==
    /\ Direct
    /\ Len(retreated) <= Len(advanced)
    /\ \E overflow_checks \in BOOLEAN : Apply("prev", prev(Self, overflow_checks))
    /\ retreated' = Append(retreated, ret')
    /\ UNCHANGED <<view, ended, advanced, yielded>>

RoundTripNext ==
    \/ RTAdvance
    \/ RTRetreat

RoundTrip == Init /\ [][RoundTripNext]_vars

----------------------------------------------------------------------------
(* Iteration: next() is called over and over on a fresh cursor; advanced   *)
(* logs the items it returns.                                              *)

ItAdvance ==
    /\ Direct
    /\ Apply("next", next(Self))
    /\ advanced' = IF ret' = None THEN advanced ELSE Append(advanced, ret'[1])
    /\ UNCHANGED <<view, ended, retreated, yielded>>

IterateNext == ItAdvance

Iterate == Init /\ [][IterateNext]_vars

----------------------------------------------------------------------------
(* Enumeration: a view is taken of a fresh cursor and stepped; yielded     *)
(* logs its items.  A step after the view has ended is a step too.         *)

EnumOpen ==
    /\ op = "new"
    /\ OpenView

\* The view's next(), by the kind of view.
view_next(v, self) ==
    IF v = "words" THEN words_next(self)
    ELSE IF v = "words_with_lines" THEN words_with_lines_next(self)
    ELSE lines_next(self)

EnumStep ==
    /\ ~panicked
    /\ view # "none"
    /\ Apply(view \o "_next", view_next(view, Self))
    /\ yielded' = IF ret' = None THEN yielded ELSE Append(yielded, ret'[1])
    /\ CountEnded
    /\ UNCHANGED <<view, advanced, retreated>>

EnumerateNext ==
    \/ EnumOpen
    \/ EnumStep

Enumerate == Init /\ [][EnumerateNext]_vars

----------------------------------------------------------------------------
(* What the buffer is, read off its bytes alone.                           *)

\* The number of '\n' characters in s[0..n).
NewlinesBefore(s, n) == Cardinality({i \in 1..n : s[i] = 10})

\* The byte indices of s (0-based) at which a character starts, and Len(s).
RECURSIVE BoundariesFrom(_, _)
BoundariesFrom(s, i) ==
    IF i >= Len(s) THEN {Len(s)} ELSE {i} \cup BoundariesFrom(s, i + Width(s[i + 1]))

Boundaries(s) == BoundariesFrom(s, 0)

\* The character of s that starts at byte index i (0-based).
CharAt(s, i) == Decode(SubSeq(s, i + 1, i + Width(s[i + 1])))

\* The character that ends at byte index i > 0 of s.
CharBefore(s, i) ==
    LET p == CHOOSE q \in Boundaries(s) : q < i /\ q + Width(s[q + 1]) = i
    IN CharAt(s, p)

\* The i-th smallest member of a set of numbers.
Nth(S, i) == CHOOSE x \in S : Cardinality({y \in S : y < x}) = i - 1

\* Where the words of s start: a character that is not whitespace, at the
\* start of s or after whitespace.
WordStarts(s) ==
    {b \in Boundaries(s) \ {Len(s)} :
        /\ ~is_whitespace(CharAt(s, b))
        /\ b = 0 \/ is_whitespace(CharBefore(s, b))}

\* s is made of non-empty lines separated by '\n' (the last may end with one).
NonEmptyLines(s) ==
    /\ s # <<>> => s[1] # 10
    /\ \A i \in 1..(Len(s) - 1) : ~(s[i] = 10 /\ s[i + 1] = 10)

\* Where the lines of s start.
LineStarts(s) == {b \in 0..(Len(s) - 1) : b = 0 \/ s[b] = 10}

\* The line of s that starts at b, through its newline when it has one.
LineFrom(s, b) ==
    LET ends == {e \in (b + 1)..Len(s) : s[e] = 10 \/ e = Len(s)}
    IN SubSeq(s, b + 1, Nth(ends, 1))

\* The characters of s in order, each with the byte index at which it starts.
Items(s) ==
    LET starts == Boundaries(s) \ {Len(s)}
    IN [i \in 1..Cardinality(starts) |->
           <<Nth(starts, i), CharAt(s, Nth(starts, i))>>]

----------------------------------------------------------------------------
(* The claims.                                                             *)

\* C1: after any sequence of next, prev, next_word, next_line and view steps,
\* line is the number of '\n' characters in data[0..offset).
C1_LineCountsNewlines == line = NewlinesBefore(data, offset)

\* C1 witness: prev has stepped back over a newline that follows another one.
C1_Witness == op = "prev" /\ ret # None /\ is_newline(ret[1][2]) /\ line = 1

\* C2: offset is within the buffer and on a character boundary, in every state.
C2_OffsetOnBoundary ==
    /\ 0 <= offset
    /\ offset <= Len(data)
    /\ offset \in Boundaries(data)

\* C2 witness: prev has stepped back over a four-byte character that is not
\* the first of the buffer.
C2_Witness == op = "prev" /\ ret # None /\ ret[1][2] = 128075 /\ offset > 0

\* C3: no operation panics.
C3_NoPanic == ~panicked

\* C4: n successful next() calls on a new cursor, then prev() calls: the i-th
\* prev() returns what the (n+1-i)-th next() returned, offset and character,
\* the (n+1)-th returns None, and after n of them offset and line are 0.
C4_RoundTrip ==
    LET n == Len(advanced)
    IN /\ ~panicked
       /\ \A i \in 1..Len(retreated) :
             retreated[i] = IF i <= n THEN Some(advanced[n + 1 - i]) ELSE None
       /\ Len(retreated) >= n => offset = 0 /\ line = 0

\* C4 witness: a run over a four-byte character and a newline is retreated
\* in full, and once more.
C4_Witness ==
    /\ Len(retreated) = Len(advanced) + 1
    /\ \E i \in 1..Len(advanced) : advanced[i][2] = 128075
    /\ \E i \in 1..Len(advanced) : is_newline(advanced[i][2])

\* C5: a successful next() returns (o, c) with o the offset before the call
\* and c the character of data at o, and leaves offset = o + the width of c;
\* peek() returns the character at offset together with offset.
C5_AbsoluteOffsets ==
    /\ op = "next" /\ ret # None =>
          /\ ret[1][1] + Len(Encode(ret[1][2])) = offset
          /\ CharAt(data, ret[1][1]) = ret[1][2]
    /\ op = "peek" /\ ret # None =>
          /\ ret[1][1] = offset
          /\ CharAt(data, offset) = ret[1][2]

\* C6: next() returns what peek() would have returned just before it, and
\* prev() what lookback() would have.
C6_PeekAgrees ==
    [][/\ op' = "next" => ret' = peek(Self).ret
       /\ op' = "prev" /\ ~panicked' => ret' = lookback(Self).ret]_vars

\* C6 witness: next() has returned a character from a forward iterator that
\* prev() re-created.
C6_Witness ==
    /\ op = "next"
    /\ ret # None
    /\ forward.front_offset # offset

\* C7: peek() and lookback() leave offset, line and forward as they were, and
\* called again straight away return the same value.
C7_PeekIsPure ==
    [][op' \in {"peek", "lookback"} =>
          /\ offset' = offset
          /\ line' = line
          /\ forward' = forward
          /\ data' = data
          /\ op = op' => ret' = ret]_vars

\* C7 witness: peek() has returned a character in the middle of the buffer.
C7_Witness == op = "peek" /\ ret # None /\ offset > 0

\* C8: the word view of a new cursor never fails, and when it ends it has
\* yielded one item per word of the buffer, the i-th being the offset at
\* which the i-th word starts and a slice of the buffer that starts there.
C8_WordViewYieldsWords ==
    view = "words" =>
       /\ ~panicked
       /\ op = "words_next" /\ ret = None =>
             /\ Len(yielded) = Cardinality(WordStarts(data))
             /\ \A i \in 1..Len(yielded) :
                   LET start == yielded[i][1]
                       slice == yielded[i][2]
                   IN /\ start = Nth(WordStarts(data), i)
                      /\ slice = SubSeq(data, start + 1, start + Len(slice))

\* C9: on a buffer of non-empty lines the line view of a new cursor never
\* fails, and when it ends it has yielded one item per line, the k-th (from
\* 0) being k and the k-th line through its newline.
C9_LineViewYieldsLines ==
    view = "lines" /\ NonEmptyLines(data) =>
       /\ ~panicked
       /\ op = "lines_next" /\ ret = None =>
             /\ Len(yielded) = Cardinality(LineStarts(data))
             /\ \A i \in 1..Len(yielded) :
                   yielded[i] = <<i - 1, LineFrom(data, Nth(LineStarts(data), i))>>

\* C10: next_word() or next_line() that consumed a character and stopped at
\* the end of the buffer returns the rest of the buffer from where it started.
C10_ScanToEnd ==
    /\ op = "next_word" /\ offset = Len(data) /\ (panicked \/ ret # None) =>
          /\ ~panicked
          /\ ret[1][2] = SubSeq(data, ret[1][1] + 1, Len(data))
    /\ op = "next_line" /\ offset = Len(data) /\ (panicked \/ ret # None) =>
          /\ ~panicked
          /\ ret[1] = SubSeq(data, Len(data) - Len(ret[1]) + 1, Len(data))

\* C11: next_word() (next_line()) that consumed a character and stopped at a
\* whitespace character (at '\n') returns the text it consumed followed by
\* the whole of that character, next_word() together with the offset at which
\* it started.
C11_SliceIncludesDelimiter ==
    [][/\ op' = "next_word" /\ offset < offset' /\ offset' < Len(data) =>
             /\ ~panicked'
             /\ ret' = Some(<<offset,
                              SubSeq(data, offset + 1,
                                     offset' + Width(data[offset' + 1]))>>)
       /\ op' = "next_line" /\ offset < offset' /\ offset' < Len(data) =>
             /\ ~panicked'
             /\ ret' = Some(SubSeq(data, offset + 1,
                                   offset' + Width(data[offset' + 1])))]_vars

\* C12: a call of next, prev, next_word or next_line that returns None leaves
\* offset and line as they were; next and peek return None exactly at the end
\* of the buffer, prev and lookback exactly at its start, a scan exactly when
\* it consumed nothing, which is when the cursor is on a delimiter or at the
\* end; on the empty buffer all of them return None.
C12_NoValue ==
    [][/\ op' \in {"next", "prev", "next_word", "next_line"}
             /\ ~panicked' /\ ret' = None =>
                offset' = offset /\ line' = line
       /\ op' \in {"next", "peek"} => (ret' = None <=> offset = Len(data))
       /\ op' \in {"prev", "lookback"} =>
             ((~panicked' /\ ret' = None) <=> offset = 0)
       /\ op' \in {"next_word", "next_line"} =>
             ((~panicked' /\ ret' = None) <=> offset' = offset)
       /\ op' = "next_word" =>
             (offset' = offset <=>
                 offset = Len(data) \/ is_whitespace(CharAt(data, offset)))
       /\ op' = "next_line" =>
             (offset' = offset <=>
                 offset = Len(data) \/ is_newline(CharAt(data, offset)))
       /\ data = <<>>
             /\ op' \in {"next", "prev", "peek", "lookback", "next_word", "next_line"} =>
                ~panicked' /\ ret' = None]_vars

\* C12 witness: next_word() has returned None on whitespace in the middle of
\* the buffer.
C12_Witness ==
    /\ op = "next_word"
    /\ ~panicked
    /\ ret = None
    /\ 0 < offset
    /\ offset < Len(data)

\* C13: once a step of a view has returned None, every later step of that
\* view returns None and leaves offset and line as they were.
C13_EndIsPermanent ==
    [][ended > 0 /\ op' \in {"words_next", "words_with_lines_next", "lines_next"} =>
          /\ ~panicked'
          /\ ret' = None
          /\ offset' = offset
          /\ line' = line]_vars

\* C13 witness: a line view has returned None twice, in the middle of the
\* buffer.
C13_Witness ==
    /\ view = "lines"
    /\ ended >= 2
    /\ 0 < offset
    /\ offset < Len(data)

\* C14: on a new cursor the items next() has returned so far are the first
\* characters of the buffer in order, each with its byte offset, and offset
\* is where the next one starts; next() returns None only after the last of
\* them, at offset = Len(data), and from then on returns None and changes
\* nothing.
C14_IterationYieldsItems ==
    LET n == Len(advanced)
        items == Items(data)
    IN /\ n <= Len(items)
       /\ advanced = SubSeq(items, 1, n)
       /\ offset = IF n = Len(items) THEN Len(data) ELSE items[n + 1][1]
       /\ op = "next" /\ ret = None => n = Len(items)
       /\ n = Len(items) => next(Self) = Outcome(Self, None)

\* C14 witness: next() has returned None after three characters, one of them
\* of four bytes and not the last.
C14_Witness ==
    /\ op = "next"
    /\ ret = None
    /\ Len(advanced) = 3
    /\ \E i \in 1..2 : advanced[i][2] = 128075

\* The cursor that calls of next() alone bring from c to byte offset k.
RECURSIVE AdvancedTo(_, _)
AdvancedTo(c, k) ==
    IF c.offset >= k \/ next(c).ret = None THEN c ELSE AdvancedTo(next(c).self, k)

\* Two outcomes with the same value and the same offset and line afterwards.
SameResult(a, b) ==
    /\ a.panic = b.panic
    /\ a.ret = b.ret
    /\ a.self.offset = b.self.offset
    /\ a.self.line = b.self.line

\* C15: the cursor and the cursor that next() alone brings to the same offset
\* and line return the same values from next, peek, prev, lookback, next_word
\* and next_line, and end with the same offset and line.
C15_ResultsDependOnOffsetAndLine ==
    LET other == AdvancedTo(new(data), offset)
    IN ~panicked /\ other.offset = offset /\ other.line = line =>
          /\ SameResult(next(Self), next(other))
          /\ SameResult(peek(Self), peek(other))
          /\ \A oc \in BOOLEAN : SameResult(prev(Self, oc), prev(other, oc))
          /\ SameResult(lookback(Self), lookback(other))
          /\ SameResult(next_word(Self), next_word(other))
          /\ SameResult(next_line(Self), next_line(other))

\* C16: after next_line(), or a step of the line view, has returned a slice
\* that ends with a newline, offset is just past that newline, at the start
\* plus the length of the slice, and line is one more than before the call.
C16_NewlineConsumed ==
    [][/\ op' = "next_line" /\ ~panicked' /\ ret' # None
             /\ ret'[1][Len(ret'[1])] = 10 =>
                offset' = offset + Len(ret'[1]) /\ line' = line + 1
       /\ op' = "lines_next" /\ ~panicked' /\ ret' # None
             /\ ret'[1][2][Len(ret'[1][2])] = 10 =>
                offset' = offset + Len(ret'[1][2]) /\ line' = line + 1]_vars

\* C17: wherever next() returns a character, prev() called right after it
\* returns that same character and puts offset and line back; and wherever
\* prev() returns a character, next() called right after it returns that same
\* character and puts offset and line back.
C17_AdvanceRetreatUndo ==
    ~panicked =>
       /\ LET a == next(Self)
          IN a.ret # None =>
                \A oc \in BOOLEAN :
                   LET b == prev(a.self, oc)
                   IN /\ ~b.panic
                      /\ b.ret # None
                      /\ b.ret[1][2] = a.ret[1][2]
                      /\ b.self.offset = offset
                      /\ b.self.line = line
       /\ \A oc \in BOOLEAN :
             LET b == prev(Self, oc)
             IN ~b.panic /\ b.ret # None =>
                   LET a == next(b.self)
                   IN /\ a.ret # None
                      /\ a.ret[1][2] = b.ret[1][2]
                      /\ a.self.offset = offset
                      /\ a.self.line = line

\* C17 witness: in "a", WAVING HAND, "a" the cursor went past the four-byte
\* character and prev() has brought it back over it.
C17_Witness ==
    /\ data = <<97, 240, 159, 145, 139, 97>>
    /\ op = "prev"
    /\ ret = Some(<<1, 128075>>)
    /\ offset = 1

\* C18: a prev() that returns (o, c) has moved offset back by the width of
\* the character just before it; o is the new offset and c the character of
\* the buffer there.
C18_RetreatReturnsNewOffset ==
    [][op' = "prev" /\ ~panicked' /\ ret' # None =>
          /\ offset' = offset - Len(Encode(CharBefore(data, offset)))
          /\ ret'[1][1] = offset'
          /\ ret'[1][2] = CharAt(data, offset')]_vars

\* C18 witness: prev() has stepped back over a three-byte character that is
\* not the first of the buffer.
C18_Witness == op = "prev" /\ ret # None /\ ret[1][2] = 8195 /\ offset > 0

\* C19: after a step of a word view has yielded an item the cursor is on the
\* first character of a word or at the end of the buffer; the item of the
\* line-aware view is (start, lineNumber, slice) with start the offset and
\* lineNumber the line before the step, which is the number of '\n'
\* characters in data[0..start).
C19_WordViewLandsOnNextWord ==
    [][/\ op' \in {"words_next", "words_with_lines_next"}
             /\ ~panicked' /\ ret' # None =>
                offset' \in WordStarts(data) \cup {Len(data)}
       /\ op' = "words_with_lines_next" /\ ~panicked' /\ ret' # None =>
             /\ ret'[1][1] = offset
             /\ ret'[1][2] = line
             /\ ret'[1][2] = NewlinesBefore(data, ret'[1][1])]_vars

\* C19 witness: the line-aware word view has yielded a word of the second
\* line.
C19_Witness ==
    /\ op = "words_with_lines_next"
    /\ ret # None
    /\ ret[1][2] = 1

\* C20: the input left in forward is data[offset..], so the character forward
\* produces next is the character of the buffer at offset.
C20_ForwardIsRestOfBuffer ==
    /\ as_str(forward) = SubSeq(data, offset + 1, Len(data))
    /\ offset < Len(data) =>
          /\ peek(Self).ret # None
          /\ peek(Self).ret[1][2] = CharAt(data, offset)

\* C20 witness: prev() has re-created forward in the middle of the buffer.
C20_Witness ==
    /\ op = "prev"
    /\ ret # None
    /\ forward.front_offset = 0
    /\ 0 < offset
    /\ offset < Len(data)

====
